---- MODULE Spec2Model ----
(***************************************************************************)
(* Model of enginecore/state/hardware/asset.py: one Asset component, its   *)
(* AssetState, the handlers it registers on the event bus and the direct   *)
(* power operations.  Three further components have a specification of    *)
(* their own: the status evaluator and request handlers of                 *)
(* enginecore/state/agent/storcli_emu.py (SpecEval, SpecStorCLI), the      *)
(* action recorder exercised by tests/test_recorder.py (SpecRecorder) and  *)
(* the voltage cascade down a hierarchy of assets (SpecCascade).           *)
(*                                                                         *)
(* Numbers.  Voltages are integral volts, so int(v) in the source is v.    *)
(* Loads are the exact quotients power_consumption / voltage; they are     *)
(* kept as normalised fractions [n, d] so that sums and differences of     *)
(* loads are exact.                                                        *)
(***************************************************************************)
EXTENDS Integers, Sequences, FiniteSets, TLC

\* ------------------------------------------------------------------ bounds
MaxVolt == 4          \* voltages range over 0..MaxVolt
MaxPower == 2         \* power_consumption ranges over 1..MaxPower
MaxChildLoad == 2     \* child_load payloads range over 0..MaxChildLoad
MaxEvents == 3        \* events and direct calls per behaviour
MantissaBits == 3     \* significant bits kept by the rounded arithmetic
MaxExp == 2           \* rounded inputs are multiples of 2^-k, k in 0..MaxExp

Volts == 0..MaxVolt
ChildLoads == 0..MaxChildLoad

\* ------------------------------------------------------- exact arithmetic
Abs(x) == IF x < 0 THEN -x ELSE x

RECURSIVE GCD(_, _)
GCD(a, b) == IF b = 0 THEN a ELSE GCD(b, a % b)

\* the fraction n/d (d > 0) in lowest terms
Frac(n, d) ==
    LET g == GCD(Abs(n), d)
    IN  [n |-> n \div g, d |-> d \div g]

Num(i) == [n |-> i, d |-> 1]
Zero == Num(0)
Plus(x, y) == Frac(x.n * y.d + y.n * x.d, x.d * y.d)
Minus(x, y) == Frac(x.n * y.d - y.n * x.d, x.d * y.d)
IsNeg(x) == x.n < 0

\* bitwise exclusive or of two naturals (Python's ^ on non-negative ints)
RECURSIVE Xor(_, _)
Xor(a, b) ==
    IF a = 0 /\ b = 0 THEN 0
    ELSE (((a % 2) + (b % 2)) % 2) + 2 * Xor(a \div 2, b \div 2)

\* ------------------------------------------------------------------ state
VARIABLES
    status,             \* state.status: 1 = Up, 0 = Down
    input_voltage,      \* state.input_voltage
    load,               \* state.load
    state_reason,       \* Asset._state_reason
    min_voltage,        \* state.min_voltage_prop(), static per asset type
    power_consumption,  \* state.power_consumption, static per asset type
    event,              \* the event the bus is delivering to this asset
    pending,            \* handlers of that event still to run, in bus order
    ran,                \* handlers of that event that have run, in order
    ret,                \* value returned by the last handler or call
    pre,                \* status, input_voltage and load when the event was fired
    child_sum,          \* net child_load added by the child load handlers
    nevents,            \* events and direct calls so far
    thr,                \* handler invocations running on concurrent bus threads
    storcli,            \* the storcli emulator of a server: details read, request, reply
    recorder,           \* the action recorder and the entities it records
    hierarchy           \* assets in a parent-child hierarchy and the events in flight

vars == <<status, input_voltage, load, state_reason, min_voltage,
          power_consumption, event, pending, ran, ret, pre, child_sum,
          nevents, thr, storcli, recorder, hierarchy>>

\* the variables of the single asset
asset_vars == <<status, input_voltage, load, state_reason, min_voltage,
                power_consumption, event, pending, ran, ret, pre, child_sum,
                nevents, thr>>

Key == "asset"
AssetType == "asset_type"

NoEvent == [name |-> "None"]
NoResult == [kind |-> "None"]

\* no emulator, recorder or hierarchy is attached to the asset
NoEmulator == [argv |-> "None"]
NoRecorder == [enabled |-> FALSE]
NoHierarchy == [queue |-> <<>>]

\* ------------------------------------------------- AssetState mutators
state_power_up == 1
state_power_off == 0
state_shut_down == 0

\* state.update_load(load): stores the value it is given
state_update_load(new_load) == new_load

\* ------------------------------------------------- bus registration
LoadIncreaseEvents == {"ChildAssetLoadIncreased", "ChildAssetPowerUp"}
LoadDecreaseEvents == {"ChildAssetLoadDecreased", "ChildAssetPowerDown"}
ChildLoadEvents == {"ChildLoadUpEvent", "ChildLoadDownEvent"}
VoltageEvents == {"InputVoltageUpEvent", "InputVoltageDownEvent"}

HandlerNames ==
    <<"on_load_increase", "on_load_decrease", "on_child_load_update",
      "on_btn_power_down", "on_btn_power_up", "detect_input_voltage",
      "on_parent_volt_up", "on_parent_volt_down">>

\* both transition handlers subscribed to both voltage events
SubscriptionsOverlapping(h) ==
    CASE h = "on_load_increase" -> LoadIncreaseEvents
      [] h = "on_load_decrease" -> LoadDecreaseEvents
      [] h = "on_child_load_update" -> ChildLoadEvents
      [] h = "on_btn_power_down" -> {"ButtonPowerDownPressed"}
      [] h = "on_btn_power_up" -> {"ButtonPowerUpPressed"}
      [] h = "detect_input_voltage" -> VoltageEvents
      [] h = "on_parent_volt_up" -> VoltageEvents
      [] h = "on_parent_volt_down" -> VoltageEvents

Subscriptions(h) ==
    CASE h = "on_load_increase" -> LoadIncreaseEvents
      [] h = "on_load_decrease" -> LoadDecreaseEvents
      [] h = "on_child_load_update" -> ChildLoadEvents
      [] h = "on_btn_power_down" -> {"ButtonPowerDownPressed"}
      [] h = "on_btn_power_up" -> {"ButtonPowerUpPressed"}
      [] h = "detect_input_voltage" -> VoltageEvents
      [] h = "on_parent_volt_up" -> {"InputVoltageUpEvent"}
      [] h = "on_parent_volt_down" -> {"InputVoltageDownEvent"}

\* a handler declared with priority=-1 placed ahead of the default ones
PriorityFirst(h) == IF h = "detect_input_voltage" THEN 1 ELSE 0

\* priority declared in the @handler decorator (default 0)
Priority(h) == IF h = "detect_input_voltage" THEN -1 ELSE 0

\* insert h into a sequence kept in descending priority order
RECURSIVE Insert(_, _)
Insert(h, s) ==
    IF s = <<>> THEN <<h>>
    ELSE IF Priority(h) > Priority(Head(s)) THEN <<h>> \o s
    ELSE <<Head(s)>> \o Insert(h, Tail(s))

RECURSIVE Registered(_, _)
Registered(name, i) ==
    IF i > Len(HandlerNames) THEN <<>>
    ELSE IF name \in Subscriptions(HandlerNames[i])
         THEN Insert(HandlerNames[i], Registered(name, i + 1))
         ELSE Registered(name, i + 1)

\* the handlers the bus runs for an event, highest priority first
HandlersFor(name) == Registered(name, 1)

\* ------------------------------------------------- event vocabulary
\* event.get_next_power_event(asset): the voltage event rebuilt for this
\* asset, from its stored input voltage to the voltage the event carries
get_next_power_event(e) ==
    [kind |-> "AssetPowerEvent", asset_key |-> Key,
     out_volt_old |-> input_voltage, out_volt_new |-> e.new_in_volt,
     load_old |-> Zero, load_new |-> Zero,
     state_old |-> status, state_new |-> status]

\* event.get_next_load_event(asset): the load event rebuilt for this asset,
\* starting from its stored load
get_next_load_event(e) ==
    [kind |-> "AssetLoadEvent", asset_key |-> Key,
     load_old |-> load, load_new |-> load]

\* event.load.difference of a cascading load event
difference(e) == Minus(e.load_new, e.load_old)

\* ------------------------------------------------- _process_parent_volt_e
\* the outcome of a division by zero
ZeroDivisionError == [kind |-> "ZeroDivisionError"]

\* Python's a / b
Divide(a, b) == IF b = 0 THEN ZeroDivisionError ELSE Frac(a, b)

\* the division done whatever the voltage
calc_load_unguarded(v) == Divide(power_consumption, v)

\* calc_load = lambda v: power_consumption / v if v else 0
calc_load(v) == IF v # 0 THEN Divide(power_consumption, v) ELSE Zero

\* the threshold comparison with the boundary left out of the power-off side
PowerActionStrict(new_out_volt, min_v, state_old) ==
    IF new_out_volt < min_v /\ state_old = 1 THEN "power_off"
    ELSE IF new_out_volt > min_v /\ state_old # 1 THEN "power_up"
    ELSE "None"

\* which state mutator the voltage comparison selects
PowerAction(new_out_volt, min_v, state_old) ==
    IF new_out_volt <= min_v /\ state_old = 1 THEN "power_off"
    ELSE IF new_out_volt > min_v /\ state_old # 1 THEN "power_up"
    ELSE "None"

\* the old output voltage passed on whatever the previous power state
OutVoltOldUnmasked(old_out_volt, state_old) == old_out_volt

\* asset_event.out_volt.old = old_out_volt * asset_event.state.old
OutVoltOld(old_out_volt, state_old) == old_out_volt * state_old

\* asset_event.out_volt.new = new_out_volt * (int(old_out_volt) ^ 1)
OutVoltNew(old_out_volt, new_out_volt) == new_out_volt * Xor(old_out_volt, 1)

\* the stored load replaced by the asset's own recomputed component
RecomputedLoad(cur, old_load, new_load) == new_load

\* self.state.load - old_load + new_load
UpdatedLoad(cur, old_load, new_load) == Plus(Minus(cur, old_load), new_load)

\* the asset event, power status and stored load the handler produces
ProcessParentVoltE(e) ==
    LET asset_event == get_next_power_event(e)
        state_old == status
        old_out_volt == asset_event.out_volt_old
        new_out_volt == asset_event.out_volt_new
        power_action == PowerAction(new_out_volt, min_voltage, state_old)
        state_new == CASE power_action = "power_off" -> state_power_off
                       [] power_action = "power_up" -> state_power_up
                       [] OTHER -> asset_event.state_new
        out_old == IF power_action # "None"
                   THEN OutVoltOld(old_out_volt, state_old)
                   ELSE old_out_volt
        out_new == IF power_action # "None"
                   THEN OutVoltNew(old_out_volt, new_out_volt)
                   ELSE new_out_volt
        old_load == calc_load(out_old)
        new_load == calc_load(out_new)
        raised == old_load = ZeroDivisionError \/ new_load = ZeroDivisionError
    IN  [status |-> IF power_action # "None" THEN state_new ELSE status,
         load |-> IF ~raised /\ new_load # old_load
                  THEN UpdatedLoad(load, old_load, new_load)
                  ELSE load,
         ret |-> IF raised
                 THEN ZeroDivisionError
                 ELSE [asset_event EXCEPT !.state_old = state_old,
                                          !.state_new = state_new,
                                          !.out_volt_old = out_old,
                                          !.out_volt_new = out_new,
                                          !.load_old = old_load,
                                          !.load_new = new_load]]

\* ------------------------------------------------------------------ Init
NoThreads == <<>>

\* a constructor that leaves the load found in the state store
InitStaleLoad ==
    /\ status = 0
    /\ input_voltage = 0
    /\ load \in {Zero, Num(1)}
    /\ state_reason = "ButtonPowerUpPressed"
    /\ min_voltage \in 1..(MaxVolt - 1)
    /\ power_consumption \in 1..MaxPower
    /\ event = NoEvent
    /\ pending = <<>>
    /\ ran = <<>>
    /\ ret = NoResult
    /\ pre = [status |-> 0, input_voltage |-> 0, load |-> load]
    /\ child_sum = Zero
    /\ nevents = 0
    /\ thr = NoThreads
    /\ storcli = NoEmulator
    /\ recorder = NoRecorder
    /\ hierarchy = NoHierarchy

Init ==
    /\ status = 0
    /\ input_voltage = 0
    /\ load = Zero
    /\ state_reason = "ButtonPowerUpPressed"
    /\ min_voltage \in 1..(MaxVolt - 1)
    /\ power_consumption \in 1..MaxPower
    /\ event = NoEvent
    /\ pending = <<>>
    /\ ran = <<>>
    /\ ret = NoResult
    /\ pre = [status |-> 0, input_voltage |-> 0, load |-> Zero]
    /\ child_sum = Zero
    /\ nevents = 0
    /\ thr = NoThreads
    /\ storcli = NoEmulator
    /\ recorder = NoRecorder
    /\ hierarchy = NoHierarchy

\* ------------------------------------------------- the bus fires an event
Idle == pending = <<>> /\ nevents < MaxEvents /\ thr = NoThreads

Fire(e) ==
    /\ Idle
    /\ event' = e
    /\ pending' = HandlersFor(e.name)
    /\ ran' = <<>>
    /\ pre' = [status |-> status, input_voltage |-> input_voltage, load |-> load]
    /\ nevents' = nevents + 1
    /\ UNCHANGED <<status, input_voltage, load, state_reason, min_voltage,
                   power_consumption, ret, child_sum, thr,
                   storcli, recorder, hierarchy>>

FireLoadIncrease ==
    \E name \in LoadIncreaseEvents, c \in ChildLoads :
        Fire([name |-> name, child_load |-> c])

FireLoadDecrease ==
    \E name \in LoadDecreaseEvents, c \in ChildLoads :
        Fire([name |-> name, child_load |-> c])

FireChildLoadUp ==
    \E o \in ChildLoads, n \in ChildLoads :
        /\ n > o
        /\ Fire([name |-> "ChildLoadUpEvent", load_old |-> Num(o), load_new |-> Num(n)])

FireChildLoadDown ==
    \E o \in ChildLoads, n \in ChildLoads :
        /\ n < o
        /\ Fire([name |-> "ChildLoadDownEvent", load_old |-> Num(o), load_new |-> Num(n)])

FireButton ==
    \E name \in {"ButtonPowerDownPressed", "ButtonPowerUpPressed"} :
        Fire([name |-> name])

\* a voltage spike: the new input voltage is above the stored one
FireInputVoltageUp ==
    \E v \in Volts :
        /\ v > input_voltage
        /\ Fire([name |-> "InputVoltageUpEvent", new_in_volt |-> v])

\* a voltage drop: the new input voltage is below the stored one
FireInputVoltageDown ==
    \E v \in Volts :
        /\ v < input_voltage
        /\ Fire([name |-> "InputVoltageDownEvent", new_in_volt |-> v])

\* ------------------------------------------------- handlers
\* the bus runs handler h, the next one of the event being delivered
Runs(h) ==
    /\ pending # <<>>
    /\ Head(pending) = h
    /\ pending' = Tail(pending)
    /\ ran' = Append(ran, h)
    /\ UNCHANGED <<min_voltage, power_consumption, event, pre, nevents, thr,
                   storcli, recorder, hierarchy>>

\* _update_load with arithmetic_op = old + change
LoadAfterIncrease(old_load, load_change) == Plus(old_load, Num(load_change))

\* the decrease handler given the increase handler's arithmetic_op
LoadAfterDecreaseAdded(old_load, load_change) == Plus(old_load, Num(load_change))

\* _update_load with arithmetic_op = old - change
LoadAfterDecrease(old_load, load_change) == Minus(old_load, Num(load_change))

LoadEventResult(old_load, new_load) ==
    [kind |-> "LoadEventResult", old_load |-> old_load,
     new_load |-> new_load, asset_key |-> Key]

on_load_increase ==
    /\ Runs("on_load_increase")
    /\ LET old_load == load
           new_load == LoadAfterIncrease(old_load, event.child_load)
       IN  /\ load' = state_update_load(new_load)
           /\ ret' = LoadEventResult(old_load, new_load)
    /\ child_sum' = Plus(child_sum, Num(event.child_load))
    /\ UNCHANGED <<status, input_voltage, state_reason>>

on_load_decrease ==
    /\ Runs("on_load_decrease")
    /\ LET old_load == load
           new_load == LoadAfterDecrease(old_load, event.child_load)
       IN  /\ load' = state_update_load(new_load)
           /\ ret' = LoadEventResult(old_load, new_load)
    /\ child_sum' = Minus(child_sum, Num(event.child_load))
    /\ UNCHANGED <<status, input_voltage, state_reason>>

\* the inbound difference applied with the wrong sign
ChildLoadUpdateNegated(old_load, diff) == Minus(old_load, diff)

\* new_load = asset_load_event.load.old + event.load.difference
ChildLoadUpdate(old_load, diff) == Plus(old_load, diff)

on_child_load_update ==
    /\ Runs("on_child_load_update")
    /\ LET asset_load_event == get_next_load_event(event)
           new_load == ChildLoadUpdate(asset_load_event.load_old, difference(event))
       IN  /\ load' = state_update_load(new_load)
           /\ ret' = [asset_load_event EXCEPT !.load_new = new_load]
    /\ child_sum' = Plus(child_sum, difference(event))
    /\ UNCHANGED <<status, input_voltage, state_reason>>

ButtonEvents == {"ButtonPowerDownPressed", "ButtonPowerUpPressed"}

\* state_reason is one of the two button events
power_state_caused_by_user ==
    \/ state_reason = "ButtonPowerDownPressed"
    \/ state_reason = "ButtonPowerUpPressed"

\* the power-down handler recording the power-up button
btn_power_down_reason_swapped == "ButtonPowerUpPressed"

\* self.state_reason = asset_events.ButtonPowerDownPressed
btn_power_down_reason == "ButtonPowerDownPressed"

on_btn_power_down ==
    /\ Runs("on_btn_power_down")
    /\ state_reason' = btn_power_down_reason
    /\ UNCHANGED <<status, input_voltage, load, ret, child_sum>>

on_btn_power_up ==
    /\ Runs("on_btn_power_up")
    /\ state_reason' = "ButtonPowerUpPressed"
    /\ UNCHANGED <<status, input_voltage, load, ret, child_sum>>

_process_parent_volt_e ==
    LET r == ProcessParentVoltE(event)
    IN  /\ status' = r.status
        /\ load' = r.load
        /\ ret' = r.ret
        /\ UNCHANGED <<input_voltage, state_reason, child_sum>>

on_parent_volt_up ==
    /\ Runs("on_parent_volt_up")
    /\ _process_parent_volt_e

on_parent_volt_down ==
    /\ Runs("on_parent_volt_down")
    /\ _process_parent_volt_e

\* the commit handler also powering the asset by the new voltage
detect_input_voltage_powering ==
    /\ Runs("detect_input_voltage")
    /\ input_voltage' = event.new_in_volt
    /\ status' = IF event.new_in_volt > 0 THEN 1 ELSE 0
    /\ UNCHANGED <<load, state_reason, ret, child_sum>>

detect_input_voltage ==
    /\ Runs("detect_input_voltage")
    /\ input_voltage' = event.new_in_volt
    /\ UNCHANGED <<status, load, state_reason, ret, child_sum>>

\* ------------------------------------------------- direct power operations
\* a method of the asset is called directly, outside event delivery
Call(op) ==
    /\ Idle
    /\ nevents' = nevents + 1
    /\ event' = [name |-> op]
    /\ ran' = <<>>
    /\ pre' = [status |-> status, input_voltage |-> input_voltage, load |-> load]
    /\ UNCHANGED <<input_voltage, load, state_reason, min_voltage,
                   power_consumption, pending, child_sum, thr,
                   storcli, recorder, hierarchy>>

\* power_up reading old_state after the state was powered up
power_up_old_after ==
    /\ Call("power_up")
    /\ status' = state_power_up
    /\ ret' = [kind |-> "PowerEventResult", asset_key |-> Key,
               asset_type |-> AssetType, old_state |-> state_power_up,
               load_change |-> 0, new_state |-> state_power_up]

power_up ==
    /\ Call("power_up")
    /\ status' = state_power_up
    /\ ret' = [kind |-> "PowerEventResult", asset_key |-> Key,
               asset_type |-> AssetType, old_state |-> status,
               load_change |-> 0, new_state |-> state_power_up]

\* PowerEventResult(asset_key, asset_type, old_state, load_change=0, new_state)
shut_down_result(old_state) ==
    [kind |-> "PowerEventResult", asset_key |-> Key,
     asset_type |-> AssetType, old_state |-> old_state,
     load_change |-> 0, new_state |-> state_shut_down]

\* PowerEventResult(asset_key, asset_type, old_state, new_state): no
\* load_change is passed
power_off_result(old_state) ==
    [kind |-> "PowerEventResult", asset_key |-> Key,
     asset_type |-> AssetType, old_state |-> old_state,
     new_state |-> state_power_off]

shut_down ==
    /\ Call("shut_down")
    /\ status' = state_shut_down
    /\ ret' = shut_down_result(status)

power_off ==
    /\ Call("power_off")
    /\ status' = state_power_off
    /\ ret' = power_off_result(status)

\* ------------------------------------------------- extension points
NotImplementedError == [kind |-> "NotImplementedError"]

\* the extension point left as a stub that returns None
on_power_up_request_received_stub ==
    /\ Call("on_power_up_request_received")
    /\ ret' = NoResult
    /\ UNCHANGED status

\* raise NotImplementedError
on_power_up_request_received ==
    /\ Call("on_power_up_request_received")
    /\ ret' = NotImplementedError
    /\ UNCHANGED status

\* raise NotImplementedError
on_power_off_request_received ==
    /\ Call("on_power_off_request_received")
    /\ ret' = NotImplementedError
    /\ UNCHANGED status

\* ------------------------------------------------- specifications
\* events delivered one at a time by the bus
NextEvents ==
    \/ FireLoadIncrease
    \/ FireLoadDecrease
    \/ FireChildLoadUp
    \/ FireChildLoadDown
    \/ FireButton
    \/ FireInputVoltageUp
    \/ FireInputVoltageDown
    \/ on_load_increase
    \/ on_load_decrease
    \/ on_child_load_update
    \/ on_btn_power_down
    \/ on_btn_power_up
    \/ on_parent_volt_up
    \/ on_parent_volt_down
    \/ detect_input_voltage

\* events, direct power operations and the extension points
Next ==
    \/ NextEvents
    \/ power_up
    \/ shut_down
    \/ power_off
    \/ on_power_up_request_received
    \/ on_power_off_request_received

Spec == Init /\ [][Next]_vars

SpecEvents == Init /\ [][NextEvents]_vars

\* ------------------------------------------------- concurrent delivery
NThreads == 2
Threads == 1..NThreads

\* one invocation of _update_load per bus thread, started but not yet run
InitConc ==
    /\ status = 0
    /\ input_voltage = 0
    /\ load \in {Num(l) : l \in ChildLoads}
    /\ state_reason = "ButtonPowerUpPressed"
    /\ min_voltage \in 1..(MaxVolt - 1)
    /\ power_consumption \in 1..MaxPower
    /\ event = NoEvent
    /\ pending = <<>>
    /\ ran = <<>>
    /\ ret = NoResult
    /\ pre = [status |-> 0, input_voltage |-> 0, load |-> load]
    /\ child_sum = Zero
    /\ nevents = 0
    /\ thr \in [Threads -> [pc : {"start"},
                            op : {"on_load_increase", "on_load_decrease"},
                            child_load : ChildLoads,
                            old_load : {Zero}]]
    /\ storcli = NoEmulator
    /\ recorder = NoRecorder
    /\ hierarchy = NoHierarchy

ThreadFrame ==
    UNCHANGED <<status, input_voltage, state_reason, min_voltage,
                power_consumption, event, pending, ran, ret, pre,
                child_sum, nevents, storcli, recorder, hierarchy>>

\* old_load = self.state.load
update_load_read(t) ==
    /\ thr # NoThreads
    /\ thr[t].pc = "start"
    /\ thr' = [thr EXCEPT ![t].pc = "read", ![t].old_load = load]
    /\ UNCHANGED load
    /\ ThreadFrame

\* new_load = arithmetic_op(old_load, load_change); self.state.update_load(new_load)
update_load_write(t) ==
    /\ thr # NoThreads
    /\ thr[t].pc = "read"
    /\ load' = IF thr[t].op = "on_load_increase"
               THEN LoadAfterIncrease(thr[t].old_load, thr[t].child_load)
               ELSE LoadAfterDecrease(thr[t].old_load, thr[t].child_load)
    /\ thr' = [thr EXCEPT ![t].pc = "done"]
    /\ ThreadFrame

NextConc ==
    \/ \E t \in Threads : update_load_read(t)
    \/ \E t \in Threads : update_load_write(t)

SpecConc == InitConc /\ [][NextConc]_vars

\* ------------------------------------------------- rounded arithmetic
\* Python floats are binary floating point: the result of + and - is the
\* exact result rounded to the nearest value with MantissaBits significant
\* bits, ties to the even mantissa.
RECURSIVE Pow2(_)
Pow2(k) == IF k = 0 THEN 1 ELSE 2 * Pow2(k - 1)

\* n/d, known to lie in [2^(MantissaBits-1), 2^MantissaBits), to an integer
RoundMant(n, d) ==
    LET q == n \div d
        r == n - q * d
    IN  IF 2 * r > d THEN q + 1
        ELSE IF 2 * r = d THEN q + (q % 2)
        ELSE q

\* the positive fraction n/d rounded to MantissaBits significant bits
RECURSIVE RoundPos(_, _)
RoundPos(n, d) ==
    IF n >= Pow2(MantissaBits) * d
    THEN LET h == RoundPos(n, 2 * d) IN Frac(2 * h.n, h.d)
    ELSE IF n < Pow2(MantissaBits - 1) * d
    THEN LET h == RoundPos(2 * n, d) IN Frac(h.n, 2 * h.d)
    ELSE Num(RoundMant(n, d))

float_round(x) ==
    IF x.n = 0 THEN Zero
    ELSE IF x.n < 0
    THEN LET h == RoundPos(-x.n, x.d) IN [n |-> -h.n, d |-> h.d]
    ELSE RoundPos(x.n, x.d)

\* lambda old, change: old + change, on floats
float_add(old, change) == float_round(Plus(old, change))

\* lambda old, change: old - change, on floats
float_sub(old, change) == float_round(Minus(old, change))

\* the non-negative floats with denominators up to 2^MaxExp
FloatInputs ==
    {Frac(i, Pow2(k)) : i \in 0..(Pow2(MantissaBits) - 1), k \in 0..MaxExp}

\* an asset whose stored load is some float L
InitFloat ==
    /\ status = 0
    /\ input_voltage = 0
    /\ load \in FloatInputs
    /\ state_reason = "ButtonPowerUpPressed"
    /\ min_voltage = 1
    /\ power_consumption = 1
    /\ event = NoEvent
    /\ pending = <<>>
    /\ ran = <<>>
    /\ ret = NoResult
    /\ pre = [status |-> 0, input_voltage |-> 0, load |-> load]
    /\ child_sum = Zero
    /\ nevents = 0
    /\ thr = NoThreads
    /\ storcli = NoEmulator
    /\ recorder = NoRecorder
    /\ hierarchy = NoHierarchy

\* a child load event with a float payload is handled; the second event of
\* a behaviour carries the payload of the first
HandlesFloat(h, x) ==
    /\ Len(ran) < 2
    /\ ran # <<>> => (ran[1] # h /\ x = event.child_load)
    /\ event' = [name |-> IF h = "on_load_increase"
                          THEN "ChildAssetLoadIncreased"
                          ELSE "ChildAssetLoadDecreased",
                 child_load |-> x]
    /\ ran' = Append(ran, h)
    /\ nevents' = nevents + 1
    /\ UNCHANGED <<status, input_voltage, state_reason, min_voltage,
                   power_consumption, pending, pre, child_sum, thr,
                   storcli, recorder, hierarchy>>

on_load_increase_float ==
    \E x \in FloatInputs :
        /\ HandlesFloat("on_load_increase", x)
        /\ LET old_load == load
               new_load == float_add(old_load, x)
           IN  /\ load' = state_update_load(new_load)
               /\ ret' = LoadEventResult(old_load, new_load)

on_load_decrease_float ==
    \E x \in FloatInputs :
        /\ HandlesFloat("on_load_decrease", x)
        /\ LET old_load == load
               new_load == float_sub(old_load, x)
           IN  /\ load' = state_update_load(new_load)
               /\ ret' = LoadEventResult(old_load, new_load)

NextFloat ==
    \/ on_load_increase_float
    \/ on_load_decrease_float

SpecFloat == InitFloat /\ [][NextFloat]_vars

\* ------------------------------------------------- storcli emulator
MaxThreshold == 2     \* thresholds range over -1 and 0..MaxThreshold
MaxCount == 2         \* measured counters range over 0..MaxCount
MaxErr == 1           \* error counts of a physical drive and of a controller
MaxPd == 2            \* physical drives per virtual drive
MaxVd == 2            \* virtual drives per controller
MaxRequests == 2      \* requests served by one emulator

\* the asset of the server, constructed and left alone
AssetAtRest ==
    /\ status = 0
    /\ input_voltage = 0
    /\ load = Zero
    /\ state_reason = "ButtonPowerUpPressed"
    /\ event = NoEvent
    /\ pending = <<>>
    /\ ran = <<>>
    /\ ret = NoResult
    /\ pre = [status |-> 0, input_voltage |-> 0, load |-> Zero]
    /\ child_sum = Zero
    /\ nevents = 0
    /\ thr = NoThreads

\* a dict is a record [keys, val]: its keys in insertion order and the
\* value stored under each key
Orders(S) ==
    {o \in [1..Cardinality(S) -> S] : \A i, j \in DOMAIN o : o[i] = o[j] => i = j}

\* a counter reaches any threshold, the sentinel included
TriggersNumeric(s_conf, stat, current_state, optimal) ==
    \E prop \in DOMAIN current_state :
        /\ current_state[prop] >= s_conf.val[stat][prop]
        /\ stat # optimal

\* the inner loop of _get_state_from_config: some prop of current_state
\* satisfies the condition that returns the status stat (which prop satisfies it
\* first does not change the value returned)
Triggers(s_conf, stat, current_state, optimal) ==
    \E prop \in DOMAIN current_state :
        /\ current_state[prop] >= s_conf.val[stat][prop]
        /\ s_conf.val[stat][prop] # -1
        /\ stat # optimal

\* the statuses scanned from the last declared one to the first
RECURSIVE ScanStatusesLast(_, _, _, _)
ScanStatusesLast(s_conf, statuses, current_state, optimal) ==
    IF statuses = <<>> THEN optimal
    ELSE LET n == Len(statuses)
         IN  IF Triggers(s_conf, statuses[n], current_state, optimal)
             THEN statuses[n]
             ELSE ScanStatusesLast(s_conf, SubSeq(statuses, 1, n - 1),
                                   current_state, optimal)

\* for status in s_conf: ... return status; after the loop: return optimal
RECURSIVE ScanStatuses(_, _, _, _)
ScanStatuses(s_conf, statuses, current_state, optimal) ==
    IF statuses = <<>> THEN optimal
    ELSE IF Triggers(s_conf, Head(statuses), current_state, optimal)
         THEN Head(statuses)
         ELSE ScanStatuses(s_conf, Tail(statuses), current_state, optimal)

\* the evaluator with the optimal status scanned like every other status
get_state_from_config_no_skip(s_conf, current_state, optimal) ==
    LET r == ScanStatuses(s_conf, s_conf.keys, current_state, "")
    IN  IF r = "" THEN optimal ELSE r

\* _get_state_from_config, given s_conf = stateConfig[config_entry]
_get_state_from_config(s_conf, current_state, optimal) ==
    ScanStatuses(s_conf, s_conf.keys, current_state, optimal)

\* ---- the evaluator on every small table
EvalStatuses == {"Optl", "Pdgd", "Dgrd"}
EvalCounters == {"mediaErrorCount", "numPdOffline"}
Thresholds == {-1} \cup 0..MaxThreshold

EvalTables ==
    {[keys |-> o, val |-> v] :
        o \in Orders(EvalStatuses),
        v \in [EvalStatuses -> [EvalCounters -> Thresholds]]}

InitEval ==
    /\ AssetAtRest
    /\ min_voltage = 1
    /\ power_consumption = 1
    /\ \E t \in EvalTables :
           storcli = [stateConfig |-> [virtualDrive |-> t],
                      read |-> [virtualDrive |-> t],
                      argv |-> "None",
                      current_state |-> [c \in EvalCounters |-> 0],
                      reply |-> "None"]
    /\ recorder = NoRecorder
    /\ hierarchy = NoHierarchy

\* the evaluator is applied to measured counters
evaluate ==
    \E current_state \in [EvalCounters -> 0..MaxCount] :
        /\ storcli' = [storcli EXCEPT
               !.argv = "state",
               !.current_state = current_state,
               !.reply = _get_state_from_config(storcli.stateConfig.virtualDrive,
                                                current_state, "Optl")]
        /\ UNCHANGED <<asset_vars, recorder, hierarchy>>

NextEval == evaluate

SpecEval == InitEval /\ [][NextEval]_vars

\* ---- the emulator serving requests
VdCounters == {"mediaErrorCount", "otherErrorCount", "numPdOffline"}
CtrlCounters ==
    {"memoryCorrectableErrors", "memoryUncorrectableErrors", "numPdOffline"}

\* a stateConfig whose optimal entries are the zeroed counters and whose
\* other entries trigger at t
StateConfigs ==
    {[controller |->
          [keys |-> <<"Optimal", "Needs Attention">>,
           val |-> [s \in {"Optimal", "Needs Attention"} |->
                        [c \in CtrlCounters |-> IF s = "Optimal" THEN 0 ELSE t]]],
      virtualDrive |->
          [keys |-> o,
           val |-> [s \in {"Optl", "Dgrd"} |->
                        [c \in VdCounters |-> IF s = "Optl" THEN 0 ELSE t]]]] :
        o \in Orders({"Optl", "Dgrd"}), t \in 1..MaxThreshold}

PhysicalDrives ==
    [mediaErrorCount : 0..MaxErr, otherErrorCount : 0..MaxErr,
     State : {"Onln", "Offln"}]

SeqsUpTo(S, n) == UNION {[1..k -> S] : k \in 1..n}

VirtualDrives == {[pd |-> p] : p \in SeqsUpTo(PhysicalDrives, MaxPd)}

RECURSIVE Flatten(_)
Flatten(vds) == IF vds = <<>> THEN <<>> ELSE Head(vds).pd \o Flatten(Tail(vds))

\* what the graph reference holds for the controller: its virtual drives,
\* each with its physical drives, and the physical drives of all of them
AllDrives == {[vd |-> v, pd |-> Flatten(v)] : v \in SeqsUpTo(VirtualDrives, MaxVd)}

ControllerDetails ==
    [memoryCorrectableErrors : 0..MaxErr, memoryUncorrectableErrors : 0..MaxErr]

\* __init__: the storcli details are read from the graph reference
InitStorCLI ==
    /\ AssetAtRest
    /\ min_voltage = 1
    /\ power_consumption = 1
    /\ \E c \in StateConfigs, d \in AllDrives, i \in ControllerDetails :
           storcli = [stateConfig |-> c, read |-> c, drives |-> d,
                      ctrl_info |-> i, argv |-> "None", served |-> 0,
                      reply |-> [status |-> "None", State |-> <<>>]]
    /\ recorder = NoRecorder
    /\ hierarchy = NoHierarchy

\* for p_drive in v_drive['pd']: the counts added to vd_state
RECURSIVE CountDrives(_, _)
CountDrives(vd_state, pds) ==
    IF pds = <<>> THEN vd_state
    ELSE LET p_drive == Head(pds)
         IN  CountDrives(
                 [vd_state EXCEPT
                      !.mediaErrorCount = @ + p_drive.mediaErrorCount,
                      !.otherErrorCount = @ + p_drive.otherErrorCount,
                      !.numPdOffline = IF p_drive.State = "Offln" THEN @ + 1 ELSE @],
                 Tail(pds))

\* the virtual drive loop of _strcli_ctrl_info: vd_state is the stored
\* 'Optl' entry itself, so the counts are added to the stored table
RECURSIVE CtrlInfoVirtualDrives(_, _)
CtrlInfoVirtualDrives(s_conf, vds) ==
    IF vds = <<>> THEN [s_conf |-> s_conf, State |-> <<>>]
    ELSE LET vd_state == CountDrives(s_conf.val["Optl"], Head(vds).pd)
             stored == [s_conf EXCEPT !.val["Optl"] = vd_state]
             State == _get_state_from_config(stored, vd_state, "Optl")
             rest == CtrlInfoVirtualDrives(stored, Tail(vds))
         IN  [s_conf |-> rest.s_conf, State |-> <<State>> \o rest.State]

\* for p_drive in drives['pd']: the offline drives added to ctrl_state
RECURSIVE CountOffline(_, _)
CountOffline(ctrl_state, pds) ==
    IF pds = <<>> THEN ctrl_state
    ELSE CountOffline(
             [ctrl_state EXCEPT
                  !.numPdOffline = IF Head(pds).State = "Offln" THEN @ + 1 ELSE @],
             Tail(pds))

\* the virtual drive loop of _get_virtual_drives: vd_state is a deep copy
\* of the stored 'Optl' entry
RECURSIVE GetVirtualDrives(_, _)
GetVirtualDrives(s_conf, vds) ==
    IF vds = <<>> THEN <<>>
    ELSE LET vd_state == CountDrives(s_conf.val["Optl"], Head(vds).pd)
         IN  <<_get_state_from_config(s_conf, vd_state, "Optl")>>
                 \o GetVirtualDrives(s_conf, Tail(vds))

Serves(argv) ==
    /\ storcli.served < MaxRequests
    /\ UNCHANGED <<asset_vars, recorder, hierarchy>>

\* '/cx show all'
_strcli_ctrl_info ==
    /\ Serves("show all")
    /\ LET config == storcli.stateConfig
           ctrl_copy == [config.controller.val["Optimal"] EXCEPT
                             !.memoryCorrectableErrors =
                                 storcli.ctrl_info.memoryCorrectableErrors,
                             !.memoryUncorrectableErrors =
                                 storcli.ctrl_info.memoryUncorrectableErrors]
           vds == CtrlInfoVirtualDrives(config.virtualDrive, storcli.drives.vd)
           ctrl_state == CountOffline(ctrl_copy, storcli.drives.pd)
       IN  storcli' = [storcli EXCEPT
               !.stateConfig.virtualDrive = vds.s_conf,
               !.argv = "show all",
               !.served = @ + 1,
               !.reply = [status |-> _get_state_from_config(config.controller,
                                                            ctrl_state, "Optimal"),
                          State |-> vds.State]]

\* '/cx /vall show all'
_strcli_ctrl_virt_disk ==
    /\ Serves("vall show all")
    /\ storcli' = [storcli EXCEPT
           !.argv = "vall show all",
           !.served = @ + 1,
           !.reply = [status |-> "None",
                      State |-> GetVirtualDrives(storcli.stateConfig.virtualDrive,
                                                 storcli.drives.vd)]]

NextStorCLI ==
    \/ _strcli_ctrl_info
    \/ _strcli_ctrl_virt_disk

SpecStorCLI == InitStorCLI /\ [][NextStorCLI]_vars

\* ------------------------------------------------- action recorder
NEntities == 2        \* recorded entities
MaxValue == 1         \* arguments of add and subtract range over 0..MaxValue
MaxActions == 4       \* calls of recorded methods per behaviour
MaxReplays == 3       \* replay_all calls per behaviour

Entities == 1..NEntities

\* RecordedEntity.add: self.count = self.count + value
entity_add(count, value) == count + value

\* a subtract that adds its argument
entity_subtract_adding(count, value) == count + value

\* RecordedEntity.subtract: self.count = self.count - value
entity_subtract(count, value) == count - value

\* the recorded method of an action executed on the entity it names
Work(count, action) ==
    [count EXCEPT ![action.key] =
        IF action.work = "add" THEN entity_add(@, action.value)
        ELSE entity_subtract(@, action.value)]

\* setUp: the entities are created with count 0 and the recorder, enabled,
\* holds no action
InitRecorder ==
    /\ AssetAtRest
    /\ min_voltage = 1
    /\ power_consumption = 1
    /\ storcli = NoEmulator
    /\ recorder = [enabled |-> TRUE,
                   history |-> <<>>,
                   count |-> [e \in Entities |-> 0],
                   calls |-> 0,
                   nreplays |-> 0,
                   recorded |-> <<>>,
                   replayed |-> <<>>,
                   base |-> [e \in Entities |-> 0],
                   replays |-> 0]
    /\ hierarchy = NoHierarchy

RecorderFrame == UNCHANGED <<asset_vars, storcli, hierarchy>>

\* a method decorated with @REC is called: it is executed and, when the
\* recorder is enabled, appended to the history
Calls(action) ==
    /\ recorder.calls < MaxActions
    /\ LET count == Work(recorder.count, action)
       IN  recorder' = [recorder EXCEPT
               !.count = count,
               !.history = IF recorder.enabled THEN Append(@, action) ELSE @,
               !.calls = @ + 1,
               !.recorded = IF recorder.enabled THEN Append(@, action) ELSE @,
               !.base = count,
               !.replays = 0]
    /\ RecorderFrame

add ==
    \E e \in Entities, value \in 0..MaxValue :
        Calls([key |-> e, work |-> "add", value |-> value])

subtract ==
    \E e \in Entities, value \in 0..MaxValue :
        Calls([key |-> e, work |-> "subtract", value |-> value])

\* REC.enabled = False / True
set_enabled ==
    /\ recorder' = [recorder EXCEPT !.enabled = ~@]
    /\ RecorderFrame

\* the actions of a history executed one after the other
RECURSIVE Replay(_, _)
Replay(count, actions) ==
    IF actions = <<>> THEN [count |-> count, replayed |-> <<>>]
    ELSE LET rest == Replay(Work(count, Head(actions)), Tail(actions))
         IN  [count |-> rest.count,
              replayed |-> <<Head(actions)>> \o rest.replayed]

\* REC.replay_all(): the history is executed; nothing is recorded meanwhile
replay_all ==
    /\ recorder.nreplays < MaxReplays
    /\ LET done == Replay(recorder.count, recorder.history)
       IN  recorder' = [recorder EXCEPT
               !.count = done.count,
               !.replayed = done.replayed,
               !.nreplays = @ + 1,
               !.replays = @ + 1]
    /\ RecorderFrame

NextRecorder ==
    \/ add
    \/ subtract
    \/ set_enabled
    \/ replay_all

SpecRecorder == InitRecorder /\ [][NextRecorder]_vars

\* ------------------------------------------------- voltage cascade
NAssets == 3          \* assets of the hierarchy; asset 1 is the root
MaxStimuli == 2       \* voltage events injected at the root

Assets == 1..NAssets
Root == 1

\* the parent of every asset but the root, with parents numbered below
\* their children: a finite acyclic hierarchy
Hierarchies == {p \in [2..NAssets -> Assets] : \A a \in 2..NAssets : p[a] < a}

InitCascade ==
    /\ AssetAtRest
    /\ min_voltage \in 1..(MaxVolt - 1)
    /\ power_consumption \in 1..MaxPower
    /\ storcli = NoEmulator
    /\ recorder = NoRecorder
    /\ \E p \in Hierarchies :
           hierarchy = [parent |-> p,
                        state |-> [a \in Assets |->
                                      [status |-> 0, input_voltage |-> 0,
                                       load |-> Zero]],
                        queue |-> <<>>,
                        handled |-> [a \in Assets |-> 0],
                        stimuli |-> 0]

\* if new_load != old_load: update_load(load - old_load + new_load)
StoredLoad(cur, old_load, new_load) ==
    IF new_load # old_load
    THEN state_update_load(UpdatedLoad(cur, old_load, new_load))
    ELSE cur

\* handler h of an asset in state st run on the voltage event e: the state
\* it leaves, the event it returns and whether it is a transition handler
\* (the stored load is computed from the values of the three loads, each
\* evaluated once)
AssetHandles(st, h, e) ==
    IF h \in {"on_parent_volt_up", "on_parent_volt_down"}
    THEN LET state_old == st.status
             old_out_volt == st.input_voltage
             new_out_volt == e.new_in_volt
             power_action == PowerAction(new_out_volt, min_voltage, state_old)
             state_new == CASE power_action = "power_off" -> state_power_off
                            [] power_action = "power_up" -> state_power_up
                            [] OTHER -> state_old
             out_old == IF power_action # "None"
                        THEN OutVoltOld(old_out_volt, state_old)
                        ELSE old_out_volt
             out_new == IF power_action # "None"
                        THEN OutVoltNew(old_out_volt, new_out_volt)
                        ELSE new_out_volt
             old_load == calc_load(out_old)
             new_load == calc_load(out_new)
         IN  [st |-> [st EXCEPT
                          !.status = state_new,
                          !.load = CHOOSE l \in
                              {StoredLoad(cur, o, n) :
                                   cur \in {st.load}, o \in {old_load},
                                   n \in {new_load}} : TRUE],
              out |-> <<[name |-> e.name, new_in_volt |-> out_new]>>,
              handled |-> 1]
    ELSE [st |-> [st EXCEPT !.input_voltage = e.new_in_volt],
          out |-> <<>>,
          handled |-> 0]

\* the handlers every asset has registered for each voltage event, in
\* bus order
VoltageHandlers == [name \in VoltageEvents |-> HandlersFor(name)]

\* the event e on its way to asset a, with the handlers still to run
Delivery(a, e) ==
    [target |-> a, event |-> e, pending |-> VoltageHandlers[e.name]]

\* the children of asset a, from child number c on, each as the target of
\* the event e
RECURSIVE ToChildren(_, _, _)
ToChildren(a, e, c) ==
    IF c > NAssets THEN <<>>
    ELSE IF hierarchy.parent[c] = a
         THEN <<Delivery(c, e)>> \o ToChildren(a, e, c + 1)
         ELSE ToChildren(a, e, c + 1)

\* the bus delivers each event an asset returned to that asset's children
RECURSIVE Dispatch(_, _)
Dispatch(a, events) ==
    IF events = <<>> THEN <<>>
    ELSE ToChildren(a, Head(events), 2) \o Dispatch(a, Tail(events))

CascadeFrame == UNCHANGED <<asset_vars, storcli, recorder>>

\* a voltage event is injected at the root of a quiescent hierarchy
inject ==
    /\ hierarchy.queue = <<>>
    /\ hierarchy.stimuli < MaxStimuli
    /\ \E v \in Volts :
           /\ v # hierarchy.state[Root].input_voltage
           /\ hierarchy' = [hierarchy EXCEPT
                  !.queue = <<Delivery(Root,
                                [name |-> IF v > hierarchy.state[Root].input_voltage
                                          THEN "InputVoltageUpEvent"
                                          ELSE "InputVoltageDownEvent",
                                 new_in_volt |-> v])>>,
                  !.handled = [a \in Assets |-> 0],
                  !.stimuli = @ + 1]
    /\ CascadeFrame

\* the bus runs the next handler of the oldest undelivered event on its
\* target; the event is delivered once its last handler has run
handle ==
    /\ hierarchy.queue # <<>>
    /\ \E d \in {Head(hierarchy.queue)} :
       \E r \in {AssetHandles(hierarchy.state[d.target], Head(d.pending), d.event)} :
           LET left == IF Len(d.pending) = 1 THEN <<>>
                       ELSE <<[d EXCEPT !.pending = Tail(@)]>>
           IN  hierarchy' = [hierarchy EXCEPT
                   !.state[d.target] = r.st,
                   !.handled[d.target] = @ + r.handled,
                   !.queue = left \o Tail(@) \o Dispatch(d.target, r.out)]
    /\ CascadeFrame

NextCascade ==
    \/ inject
    \/ handle

\* the bus eventually runs every handler of every event it holds
SpecCascade == InitCascade /\ [][NextCascade]_vars /\ WF_vars(handle)

\* ------------------------------------------------- properties
TypeOK ==
    /\ status \in {0, 1}
    /\ input_voltage \in Volts
    /\ load.d > 0

TransitionHandlers == {"on_parent_volt_up", "on_parent_volt_down"}

\* the transition handler of a voltage event is the handler that ran last
TransitionJustRan ==
    /\ ran # <<>>
    /\ ran[Len(ran)] \in TransitionHandlers

\* the event has been fired and all of its handlers have run
Handled(names) ==
    /\ event.name \in names
    /\ pending = <<>>

\* C1: right after the transition handler of a voltage event carrying v, an
\* asset that was Up with v <= min_voltage is Down, one that was Down with
\* v > min_voltage is Up, otherwise the status is as before; so the asset is
\* Up exactly when v > min_voltage.
C1_TransitionRule ==
    TransitionJustRan =>
        LET v == event.new_in_volt
        IN  /\ (pre.status = 1 /\ v <= min_voltage) => status = 0
            /\ (pre.status = 0 /\ v > min_voltage) => status = 1
            /\ (~(pre.status = 1 /\ v <= min_voltage)
                /\ ~(pre.status = 0 /\ v > min_voltage)) => status = pre.status
            /\ status = 1 <=> v > min_voltage

\* an Up asset has just been powered off by a voltage equal to min_voltage
C1_Witness ==
    /\ TransitionJustRan
    /\ pre.status = 1
    /\ event.new_in_volt = min_voltage
    /\ status = 0

\* the asset's own load component: power_consumption / voltage when Up
OwnComponent == IF status = 1 THEN calc_load(input_voltage) ELSE Zero

\* C2: once an event is handled, the stored load is the net child load plus
\* the asset's own component (power_consumption / voltage when Up, 0 when Down).
C2_LoadBookkeeping ==
    pending = <<>> => load = Plus(child_sum, OwnComponent)

\* C3: when the asset is Down after a voltage event has been handled, the
\* new_load of the event it emitted and the part of its stored load that
\* does not come from children are both 0.
C3_DownContributesZero ==
    (Handled(VoltageEvents) /\ status = 0) =>
        /\ ret.load_new = Zero
        /\ Minus(load, child_sum) = Zero

\* C4: the stored load is never negative.
C4_LoadNonNegative == ~IsNeg(load)

\* C5: an asset Up at p > min_voltage whose load is power_consumption / p,
\* handling InputVoltageDownEvent with v <= min_voltage, ends Down with load 0
\* and emits old_load = power_consumption / p and new_load = 0.
C5_VoltageCascade ==
    ( /\ TransitionJustRan
      /\ event.name = "InputVoltageDownEvent"
      /\ pre.status = 1
      /\ pre.input_voltage > min_voltage
      /\ pre.load = calc_load(pre.input_voltage)
      /\ event.new_in_volt <= min_voltage )
    => /\ status = 0
       /\ load = Zero
       /\ ret.load_old = calc_load(pre.input_voltage)
       /\ ret.load_new = Zero

\* C6: for a voltage event the transition handler runs before the commit
\* handler, the stored input voltage keeps its pre-event value until the
\* transition handler has run, and equals new_in_volt once both have run.
C6_HandlerOrdering ==
    event.name \in VoltageEvents =>
        /\ \E t \in TransitionHandlers :
               ran \in {<<>>, <<t>>, <<t, "detect_input_voltage">>}
        /\ Len(ran) <= 1 => input_voltage = pre.input_voltage
        /\ pending = <<>> => (Len(ran) = 2 /\ input_voltage = event.new_in_volt)

\* both handlers of a voltage event that changes the voltage have run
C6_Witness ==
    /\ Handled(VoltageEvents)
    /\ Len(ran) = 2
    /\ ran[2] = "detect_input_voltage"
    /\ pre.input_voltage # event.new_in_volt
    /\ input_voltage = event.new_in_volt

RECURSIVE SignedSum(_)
SignedSum(t) ==
    IF t = 0 THEN Zero
    ELSE LET c == Num(thr[t].child_load)
         IN  IF thr[t].op = "on_load_increase"
             THEN Plus(SignedSum(t - 1), c)
             ELSE Minus(SignedSum(t - 1), c)

\* C7: when the concurrently delivered child load events have all been
\* handled, the load is the initial load plus the sum of the signed changes.
C7_NoLostUpdate ==
    (thr # NoThreads /\ \A t \in Threads : thr[t].pc = "done") =>
        load = Plus(pre.load, SignedSum(NThreads))

\* C8: the transition handler changes the stored load by exactly
\* new_load - old_load of the event it emits, so the load that children
\* added stays in the stored load.
C8_DeltaApplication ==
    TransitionJustRan =>
        load = Plus(Minus(pre.load, ret.load_old), ret.load_new)

\* the own component changed while children were contributing load
C8_Witness ==
    /\ TransitionJustRan
    /\ child_sum # Zero
    /\ ret.load_new # ret.load_old
    /\ load # ret.load_new
    /\ load # pre.load

\* C9: when a voltage event flips the power status, the emitted event's old
\* out-voltage is the previous voltage if the asset was Up, 0 if it was Down.
C9_PropagatedOldVoltage ==
    (TransitionJustRan /\ status # pre.status) =>
        ret.out_volt_old = IF pre.status = 1 THEN pre.input_voltage ELSE 0

\* an asset that was Down at a non-zero voltage has just been powered up
C9_Witness ==
    /\ TransitionJustRan
    /\ pre.status = 0
    /\ status = 1
    /\ pre.input_voltage > 0
    /\ ret.out_volt_old = 0

\* C10: when a voltage event powers an Up asset off, the emitted event's new
\* out-voltage is 0.
C10_ZeroedOnPowerLoss ==
    (TransitionJustRan /\ pre.status = 1 /\ status = 0) =>
        ret.out_volt_new = 0

\* C11: the own-load components of the emitted event are power_consumption /
\* voltage for a non-zero voltage and exactly 0 for voltage 0, and the
\* transition handler always returns an event, never a division fault.
C11_LoadComputationTotal ==
    TransitionJustRan =>
        /\ ret.kind = "AssetPowerEvent"
        /\ ret.load_old = IF ret.out_volt_old = 0 THEN Zero
                          ELSE Frac(power_consumption, ret.out_volt_old)
        /\ ret.load_new = IF ret.out_volt_new = 0 THEN Zero
                          ELSE Frac(power_consumption, ret.out_volt_new)

\* an event was returned for a change between 0V and a non-zero voltage
C11_Witness ==
    /\ TransitionJustRan
    /\ ret.kind = "AssetPowerEvent"
    /\ ret.out_volt_old = 0
    /\ ret.out_volt_new # 0
    /\ ret.load_old = Zero
    /\ ret.load_new # Zero

\* C12: a load increase by x followed by a load decrease by x, or a decrease
\* followed by an increase, leaves the stored load equal to its value L
\* before the two events.
C12_RoundTripLoad ==
    (Len(ran) = 2 /\ event.name \in LoadIncreaseEvents \cup LoadDecreaseEvents) =>
        load = pre.load

\* C13: a load-increase event stores old load + child_load, a load-decrease
\* event stores old load - child_load, and the LoadEventResult returned
\* carries the asset's key, the load before the event and the load stored
\* after it.
C13_ChildLoadEvents ==
    /\ ran = <<"on_load_increase">> =>
           /\ event.name \in LoadIncreaseEvents
           /\ load = Plus(pre.load, Num(event.child_load))
           /\ ret = [kind |-> "LoadEventResult", asset_key |-> Key,
                     old_load |-> pre.load, new_load |-> load]
    /\ ran = <<"on_load_decrease">> =>
           /\ event.name \in LoadDecreaseEvents
           /\ load = Minus(pre.load, Num(event.child_load))
           /\ ret = [kind |-> "LoadEventResult", asset_key |-> Key,
                     old_load |-> pre.load, new_load |-> load]

\* a child that powered down has taken a non-zero load off a loaded asset
C13_Witness ==
    /\ ran = <<"on_load_decrease">>
    /\ event.name = "ChildAssetPowerDown"
    /\ event.child_load > 0
    /\ pre.load # Zero
    /\ ret.new_load = load

\* C14: a cascading load event stores (old load of the event rebuilt for
\* this asset) + (signed difference of the inbound event), and the event
\* returned for forwarding carries the stored load as its new load.
C14_CascadingLoadEvent ==
    ran = <<"on_child_load_update">> =>
        /\ event.name \in ChildLoadEvents
        /\ ret.kind = "AssetLoadEvent"
        /\ load = Plus(ret.load_old, Minus(event.load_new, event.load_old))
        /\ ret.load_new = load

\* a ChildLoadDownEvent has lowered the load of a loaded asset
C14_Witness ==
    /\ ran = <<"on_child_load_update">>
    /\ event.name = "ChildLoadDownEvent"
    /\ ret.load_old # Zero
    /\ ret.load_new # ret.load_old
    /\ ret.load_new = load

\* C15: once a button event is handled, state_reason is that button event,
\* power_state_caused_by_user is true, and the power status, the load and
\* the input voltage are what they were before the event.
C15_ButtonRecordsUser ==
    Handled(ButtonEvents) =>
        /\ state_reason = event.name
        /\ power_state_caused_by_user
        /\ status = pre.status
        /\ load = pre.load
        /\ input_voltage = pre.input_voltage

\* the power-down button has been handled on an asset that is Up
C15_Witness ==
    /\ Handled(ButtonEvents)
    /\ event.name = "ButtonPowerDownPressed"
    /\ ran = <<"on_btn_power_down">>
    /\ state_reason = "ButtonPowerDownPressed"
    /\ status = 1

FrameHandlers ==
    {"on_load_increase", "on_load_decrease", "on_child_load_update",
     "on_btn_power_down", "on_btn_power_up", "detect_input_voltage"}

\* C16: the handlers of the six child load events, of the two button events
\* and the voltage-commit handler leave the power status as it was.
C16_StatusFrame ==
    [][(Len(ran') = Len(ran) + 1 /\ ran'[Len(ran')] \in FrameHandlers)
           => status' = status]_vars

\* a child load handler has run on an asset that is Up
C16_Witness ==
    /\ ran = <<"on_child_load_update">>
    /\ pre.status = 1
    /\ status = 1
    /\ load # pre.load

\* C17: power_up() leaves the asset Up from any state and returns a
\* PowerEventResult with the asset's key and type, the status before the
\* call, new_state Up and load_change 0; load and input voltage are unchanged.
C17_PowerUpUnconditional ==
    event.name = "power_up" =>
        /\ status = 1
        /\ ret = [kind |-> "PowerEventResult", asset_key |-> Key,
                  asset_type |-> AssetType, old_state |-> pre.status,
                  load_change |-> 0, new_state |-> 1]
        /\ load = pre.load
        /\ input_voltage = pre.input_voltage

\* power_up() was called on a Down asset that has load and voltage
C17_Witness ==
    /\ event.name = "power_up"
    /\ pre.status = 0
    /\ status = 1
    /\ load # Zero
    /\ input_voltage > 0

\* C18: shut_down() and power_off() applied to the same state both leave the
\* asset Down with the load and voltage unchanged and return a
\* PowerEventResult with identical fields.
C18_SameContract ==
    /\ event.name = "power_off" =>
           /\ status = 0
           /\ load = pre.load
           /\ input_voltage = pre.input_voltage
           /\ ret = shut_down_result(pre.status)
    /\ event.name = "shut_down" =>
           /\ status = 0
           /\ load = pre.load
           /\ input_voltage = pre.input_voltage
           /\ ret = power_off_result(pre.status)

ExtensionPoints ==
    {"on_power_up_request_received", "on_power_off_request_received"}

\* C19: invoking an extension point of the base asset ends in
\* NotImplementedError, returns no result and leaves the power status, the
\* load and the input voltage unchanged.
C19_ExtensionPointsRaise ==
    event.name \in ExtensionPoints =>
        /\ ret = NotImplementedError
        /\ status = pre.status
        /\ load = pre.load
        /\ input_voltage = pre.input_voltage

\* on_power_up_request_received was invoked on an asset that is Down
C19_Witness ==
    /\ event.name = "on_power_up_request_received"
    /\ ret.kind = "NotImplementedError"
    /\ status = 0
    /\ input_voltage > 0

C27_CauseNotUser ==
    (TransitionJustRan /\ status # pre.status) => ~power_state_caused_by_user

\* C28: when a voltage event carrying v > min_voltage powers a Down asset
\* up, the emitted event's new out-voltage is v and its new_load is
\* power_consumption / v, whatever the asset's previous voltage.
C28_RecoveryNewVoltage ==
    (TransitionJustRan /\ pre.status = 0 /\ status = 1) =>
        /\ ret.out_volt_new = event.new_in_volt
        /\ ret.load_new = Frac(power_consumption, event.new_in_volt)

\* the evaluator has just been applied to storcli.current_state
Evaluated == storcli.argv = "state"

\* counter c of status s is reached: its threshold is not the sentinel and
\* the measured value is at least the threshold
Reached(s, c) ==
    LET threshold == storcli.read.virtualDrive.val[s][c]
    IN  threshold # -1 /\ storcli.current_state[c] >= threshold

\* positions, in declared order, of the non-optimal statuses with a
\* reached counter
Candidates ==
    {i \in DOMAIN storcli.read.virtualDrive.keys :
        LET s == storcli.read.virtualDrive.keys[i]
        IN  s # "Optl" /\ \E c \in EvalCounters : Reached(s, c)}

\* C21: when some non-optimal status has a reached counter, the evaluator
\* returns the earliest declared such status.
C21_FirstMatch ==
    (Evaluated /\ Candidates # {}) =>
        \E i \in Candidates :
            /\ \A j \in Candidates : i <= j
            /\ storcli.reply = storcli.read.virtualDrive.keys[i]

\* two statuses are satisfied, the earlier one by a single counter, and
\* the earlier one was returned
C21_Witness ==
    /\ Evaluated
    /\ Cardinality(Candidates) = 2
    /\ \E i \in Candidates :
           /\ \A j \in Candidates : i <= j
           /\ storcli.reply = storcli.read.virtualDrive.keys[i]
           /\ \E c \in EvalCounters : ~Reached(storcli.reply, c)

\* C22: a status is not returned when each of its counters either has
\* threshold -1 or a measured value below its threshold, whatever the
\* measured values of the counters with threshold -1.
C22_SentinelExclusion ==
    Evaluated =>
        \A s \in EvalStatuses \ {"Optl"} :
            (\A c \in EvalCounters : ~Reached(s, c)) => storcli.reply # s

\* the first declared status is not optimal, all of its thresholds are -1,
\* a measured counter is positive and another status was returned
C22_Witness ==
    /\ Evaluated
    /\ LET s == storcli.read.virtualDrive.keys[1]
       IN  /\ s # "Optl"
           /\ \A c \in EvalCounters : storcli.read.virtualDrive.val[s][c] = -1
           /\ \E c \in EvalCounters : storcli.current_state[c] > 0
           /\ storcli.reply \notin {s, "Optl"}

\* C23: the evaluator returns the optimal name exactly when no non-optimal
\* status has a reached counter, wherever the optimal status is declared
\* and whatever its own thresholds.
C23_OptimalFallback ==
    Evaluated => (storcli.reply = "Optl" <=> Candidates = {})

\* the optimal status is declared first, its thresholds are reached, and a
\* later status was returned
C23_Witness ==
    /\ Evaluated
    /\ storcli.read.virtualDrive.keys[1] = "Optl"
    /\ \A c \in EvalCounters : Reached("Optl", c)
    /\ storcli.reply # "Optl"
    /\ Candidates # {}

\* C24: after any sequence of requests, the stored stateConfig is what was
\* read at construction.
C24_ImmutableSnapshot ==
    storcli.served > 0 => storcli.stateConfig = storcli.read

RECURSIVE SumOver(_, _)
SumOver(f, i) == IF i = 0 THEN 0 ELSE f[i] + SumOver(f, i - 1)

\* the error counters and offline count of a virtual drive's own physical
\* drives
OwnCounters(v_drive) ==
    LET n == Len(v_drive.pd)
    IN  [mediaErrorCount |->
             SumOver([k \in 1..n |-> v_drive.pd[k].mediaErrorCount], n),
         otherErrorCount |->
             SumOver([k \in 1..n |-> v_drive.pd[k].otherErrorCount], n),
         numPdOffline |->
             SumOver([k \in 1..n |->
                         IF v_drive.pd[k].State = "Offln" THEN 1 ELSE 0], n)]

\* C29: in the reply to 'show all', the status of each virtual drive is the
\* evaluator's result on the counters of that drive's own physical drives.
C29_OwnDataOnly ==
    storcli.argv = "show all" =>
        \A i \in DOMAIN storcli.reply.State :
            storcli.reply.State[i] =
                _get_state_from_config(storcli.read.virtualDrive,
                                       OwnCounters(storcli.drives.vd[i]), "Optl")

\* the net effect on entity e of the actions of a history
RECURSIVE NetEffect(_, _)
NetEffect(actions, e) ==
    IF actions = <<>> THEN 0
    ELSE (IF Head(actions).key # e THEN 0
          ELSE IF Head(actions).work = "add" THEN Head(actions).value
          ELSE 0 - Head(actions).value)
         + NetEffect(Tail(actions), e)

C26_CascadeQuiescence ==
    /\ [](\A a \in Assets : hierarchy.handled[a] <= 1)
    /\ (hierarchy.queue # <<>>) ~> (hierarchy.queue = <<>>)

\* a second stimulus has run down a chain of three assets: every asset has
\* handled it once and no event is undelivered
C26_Witness ==
    /\ hierarchy.stimuli = 2
    /\ hierarchy.queue = <<>>
    /\ hierarchy.parent[3] = 2
    /\ \A a \in Assets : hierarchy.handled[a] = 1

====
